---- MODULE Spec2Model ----
(***************************************************************************)
(* Model of the browser file processor (multi-folder variant, the unnamed  *)
(* source file part_000; the normalizer compressImage/convertPngToJpg is   *)
(* the same code in src/App.tsx).                                          *)
(*                                                                         *)
(* State: the three React state cells of App (folders, isProcessing,       *)
(* processingStatus), the started processFiles runs (each an async         *)
(* function with its own closure and position), the archive built by the   *)
(* last download, and whether rendering has thrown.                        *)
(*                                                                         *)
(* Atomicity: JavaScript runs one task at a time. A user event (selection, *)
(* removal, click) is a task, and so is the completion of an external      *)
(* operation (image load, canvas.toBlob callback, imageCompression). The   *)
(* code between two awaits that are not backed by an external operation    *)
(* runs in microtasks of the same task, so user events are enabled only    *)
(* when every run is suspended on an external operation or has ended.      *)
(***************************************************************************)
EXTENDS Integers, Sequences, FiniteSets, TLC

\* ------------------------------------------------------------------------
\* Bounds of the model
\* ------------------------------------------------------------------------
\* user events (selections, removals, clicks) in one session
MaxEvents == 4
\* folders listed at once
MaxFolders == 2
\* files delivered by one change event when grouping is checked on its own
MaxUpload == 3

\* ------------------------------------------------------------------------
\* Strings are sequences of characters, so that split and replace compute.
\* ------------------------------------------------------------------------
ImagePrefix == <<"i", "m", "a", "g", "e", "/">>
TypePng == ImagePrefix \o <<"p", "n", "g">>
TypeJpeg == ImagePrefix \o <<"j", "p", "e", "g">>
TypeText == <<"t", "e", "x", "t", "/", "p", "l", "a", "i", "n">>
DotPng == <<".", "p", "n", "g">>
DotJpg == <<".", "j", "p", "g">>

\* String.prototype.startsWith
StartsWith(s, p) == Len(s) >= Len(p) /\ SubSeq(s, 1, Len(p)) = p

\* String.prototype.indexOf, 1-based; 0 when pat does not occur in s
IndexOf(s, pat) ==
  LET hits == {k \in 1..(Len(s) - Len(pat) + 1) : SubSeq(s, k, k + Len(pat) - 1) = pat}
  IN IF hits = {} THEN 0 ELSE CHOOSE k \in hits : \A m \in hits : k <= m

\* String.prototype.replace with a string pattern: the first occurrence only
Replace(s, pat, rep) ==
  LET k == IndexOf(s, pat)
  IN IF k = 0 THEN s
     ELSE SubSeq(s, 1, k - 1) \o rep \o SubSeq(s, k + Len(pat), Len(s))

\* file.webkitRelativePath.split('/')[0]: the text before the first '/'
FirstSegment(path) ==
  LET k == IndexOf(path, <<"/">>)
  IN IF k = 0 THEN path ELSE SubSeq(path, 1, k - 1)

\* ------------------------------------------------------------------------
\* IEEE-754 doubles of magnitude below 1, held exactly as a sign and an
\* integer count of 2^-56 in two limbs of 28 bits (n = hi * 2^28 + lo).
\* ------------------------------------------------------------------------
Limb == 2 ^ 28

Dbl(neg, hi, lo) == [neg |-> neg, hi |-> hi, lo |-> lo]

\* the double literals of the source and of the quality ladder
D09 == Dbl(FALSE, 241591910, 107374184)
D07 == Dbl(FALSE, 187904819, 53687088)
D05 == Dbl(FALSE, 134217728, 0)
D03 == Dbl(FALSE, 80530636, 214748364)
D02 == Dbl(FALSE, 53687091, 53687092)
D01 == Dbl(FALSE, 26843545, 161061274)
DZero == Dbl(FALSE, 0, 0)

\* a < b on magnitudes
MagLess(a, b) == a.hi < b.hi \/ (a.hi = b.hi /\ a.lo < b.lo)

\* a - b on magnitudes, for b <= a (exact)
MagSub(a, b) ==
  IF a.lo >= b.lo THEN [hi |-> a.hi - b.hi, lo |-> a.lo - b.lo]
  ELSE [hi |-> a.hi - b.hi - 1, lo |-> a.lo + Limb - b.lo]

\* number of low bits that do not fit a 53-bit significand
DropBits(m) ==
  IF m.hi >= 134217728 THEN 3
  ELSE IF m.hi >= 67108864 THEN 2
  ELSE IF m.hi >= 33554432 THEN 1
  ELSE 0

\* round to nearest, ties to even, to a 53-bit significand
RoundMag(m) ==
  LET u == 2 ^ DropBits(m)
      r == m.lo % u
      down == m.lo - r
      up == (r * 2 > u) \/ (r * 2 = u /\ (down \div u) % 2 = 1)
      lo2 == IF up THEN down + u ELSE down
  IN IF lo2 >= Limb THEN [hi |-> m.hi + 1, lo |-> lo2 - Limb]
     ELSE [hi |-> m.hi, lo |-> lo2]

\* a + b on magnitudes (exact)
MagAdd(a, b) ==
  IF a.lo + b.lo >= Limb THEN [hi |-> a.hi + b.hi + 1, lo |-> a.lo + b.lo - Limb]
  ELSE [hi |-> a.hi + b.hi, lo |-> a.lo + b.lo]

\* the double a - b for a double a and a non-negative double b
DblSub(a, b) ==
  LET m == IF a.neg THEN RoundMag(MagAdd(a, b))
           ELSE IF MagLess(a, b) THEN RoundMag(MagSub(b, a))
           ELSE RoundMag(MagSub(a, b))
  IN Dbl(a.neg \/ MagLess(a, b), m.hi, m.lo)

\* a < b on doubles
DblLess(a, b) ==
  IF a.neg /\ ~b.neg THEN (a.hi + a.lo + b.hi + b.lo) > 0
  ELSE IF ~a.neg /\ b.neg THEN FALSE
  ELSE IF a.neg THEN MagLess(b, a)
  ELSE MagLess(a, b)

\* ------------------------------------------------------------------------
\* Files
\* ------------------------------------------------------------------------
\* the size budget, 500 * 1024 bytes
Budget == 500 * 1024
MaxAttempts == 5

\* The payload of a File: the selected file it stems from and how its bytes
\* were produced (read from disk, drawn on the canvas and encoded as JPEG,
\* or re-encoded by imageCompression at quality q).
Data(origin, how, q) == [origin |-> origin, how |-> how, q |-> q]

File(name, type, size, path, data) ==
  [name |-> name, type |-> type, size |-> size, path |-> path, data |-> data]

Raw(id, path, name, type, size) == File(name, type, size, path, Data(id, "raw", DZero))

\* the files a user can select
PngBig == Raw(1, <<"A", "/", "a", ".", "p", "n", "g">>, <<"a", ".", "p", "n", "g">>, TypePng, Budget + 1)
JpgAt == Raw(2, <<"A", "/", "a", ".", "j", "p", "g">>, <<"a", ".", "j", "p", "g">>, TypeJpeg, Budget)
JpgBig == Raw(3, <<"B", "/", "s", "/", "a", ".", "j", "p", "g">>, <<"a", ".", "j", "p", "g">>, TypeJpeg, Budget + 1)
TxtBig == Raw(4, <<"B", "/", "n", ".", "t", "x", "t">>, <<"n", ".", "t", "x", "t">>, TypeText, Budget + 1)

\* files without a relative path (not picked through a directory)
BareTxt == Raw(5, <<>>, <<"r">>, <<>>, 1)
BarePng == Raw(6, <<>>, <<"b", ".", "p", "n", "g", ".", "p", "n", "g">>, TypePng, Budget)

\* what one change event of the file input can deliver
Selections == {<<>>, <<PngBig, JpgAt>>, <<JpgBig, TxtBig>>, <<JpgAt, TxtBig>>}

\* every list of at most MaxUpload files out of four, for grouping on its own
GroupFilesPool == {PngBig, JpgAt, TxtBig, BareTxt}
GroupInputs == UNION {[1..n -> GroupFilesPool] : n \in 0..MaxUpload}

\* the single files the normalizer is run on, on its own
NormFiles == {PngBig, JpgAt, JpgBig, TxtBig, BareTxt, BarePng}

\* byte sizes an encoder can produce
EncodedSizes == {Budget, Budget + 1}

NoFile == File(<<>>, <<>>, 0, <<>>, Data(0, "none", DZero))

\* new File([blob], file.name.replace('.png', '.jpg'), {type: 'image/jpeg'})
ConvertedFile(file, size) ==
  File(Replace(file.name, DotPng, DotJpg), TypeJpeg, size, <<>>,
       Data(file.data.origin, "canvas", DZero))

\* the file imageCompression resolves with: the input's name and type, new bytes
CompressedFile(input, quality, size) ==
  File(input.name, input.type, size, <<>>, Data(input.data.origin, "compressed", quality))

\* variant: compressedSize is taken from the size before processing
ProcessedFileSizeOfInput(file, originalSize, isCompressed, folderName) ==
  [file |-> file, originalSize |-> originalSize, compressedSize |-> originalSize,
   isCompressed |-> isCompressed, folderName |-> folderName]

ProcessedFile(file, originalSize, isCompressed, folderName) ==
  [file |-> file, originalSize |-> originalSize, compressedSize |-> file.size,
   isCompressed |-> isCompressed, folderName |-> folderName]

NoResult == ProcessedFile(NoFile, 0, FALSE, <<>>)

FolderData(name, files) == [name |-> name, files |-> files, processedFiles |-> <<>>]

\* ------------------------------------------------------------------------
\* handleFolderUpload: grouping by first path segment, Map insertion order
\* ------------------------------------------------------------------------
\* variant: the groups come in the order of the last file of each
GroupNamesByLastFile(files) ==
  LET idx == [k \in 1..Len(files) |-> k]
      Last(k) == \A m \in (k + 1)..Len(files) :
                   FirstSegment(files[m].path) # FirstSegment(files[k].path)
      lasts == SelectSeq(idx, Last)
  IN [n \in 1..Len(lasts) |-> FirstSegment(files[lasts[n]].path)]

GroupNames(files) ==
  LET idx == [k \in 1..Len(files) |-> k]
      First(k) == \A m \in 1..(k - 1) : FirstSegment(files[m].path) # FirstSegment(files[k].path)
      firsts == SelectSeq(idx, First)
  IN [n \in 1..Len(firsts) |-> FirstSegment(files[firsts[n]].path)]

GroupFiles(files, name) ==
  LET In(f) == FirstSegment(f.path) = name
  IN SelectSeq(files, In)

NewFolders(files) ==
  LET names == GroupNames(files)
  IN [n \in 1..Len(names) |-> FolderData(names[n], GroupFiles(files, names[n]))]

\* ------------------------------------------------------------------------
\* Log entries
\* ------------------------------------------------------------------------
\* (size / 1024).toFixed(2), in hundredths of a KB
ToFixed2KB(size) == (size * 200 + 1024) \div 2048

FolderEntry(name) == [kind |-> "folder", name |-> name, from |-> 0, to |-> 0]
ProcessingEntry(name) == [kind |-> "processing", name |-> name, from |-> 0, to |-> 0]
CompletedEntry(name, result) ==
  [kind |-> "completed", name |-> name, from |-> ToFixed2KB(result.originalSize),
   to |-> ToFixed2KB(result.compressedSize)]

\* ------------------------------------------------------------------------
\* downloadProcessedFiles: JSZip keeps one entry per path
\* ------------------------------------------------------------------------
\* zip.folder(name) for every group, folderZip.file(file.name, file) for every
\* processed file; a later entry of the same path replaces the earlier one.
ZipDirs(fs) == {fs[k].name : k \in 1..Len(fs)}

ZipPaths(fs) ==
  UNION {{<<fs[k].name, fs[k].processedFiles[m].file.name>> :
            m \in 1..Len(fs[k].processedFiles)} : k \in 1..Len(fs)}

ZipContent(fs, p) ==
  LET hits == UNION {{<<k, m>> : m \in {n \in 1..Len(fs[k].processedFiles) :
                                        <<fs[k].name, fs[k].processedFiles[n].file.name>> = p}} :
                      k \in 1..Len(fs)}
      last == CHOOSE h \in hits :
                \A g \in hits : g[1] < h[1] \/ (g[1] = h[1] /\ g[2] <= h[2])
  IN fs[last[1]].processedFiles[last[2]].file

BuildZip(fs) == [dirs |-> ZipDirs(fs), files |-> [p \in ZipPaths(fs) |-> ZipContent(fs, p)]]

NoArchive == [dirs |-> {}, files |-> [p \in {} |-> NoFile]]

\* ------------------------------------------------------------------------
\* State
\* ------------------------------------------------------------------------
VARIABLES
  folders,          \* useState<FolderData[]>
  isProcessing,     \* useState(false)
  processingStatus, \* useState<string[]>
  runs,             \* the processFiles calls started so far, in start order
  archive,          \* the zip handed to the browser by the last step, if any
  crashed,          \* rendering threw: the component tree is unmounted
  nEvents           \* user events handled so far

vars == <<folders, isProcessing, processingStatus, runs, archive, crashed, nEvents>>

\* A processFiles call: its closure (folders as rendered at the click), its
\* loop variables, the locals of the compressImage call it awaits, and where
\* it stands:
\*   "file"    at the head of `for (const file of folder.files)`
\*   "imgLoad" convertPngToJpg waits for img.onload
\*   "toBlob"  convertPngToJpg waits for the canvas.toBlob callback
\*   "pending" the promise of convertPngToJpg has nothing left to settle it
\*   "check"   compressImage after the conversion
\*   "loop"    at the while test of the retry loop
\*   "encode"  waits for imageCompression
\*   "result"  compressImage has returned
\*   "done"    processFiles has returned
\* calls, outputs, raised, decodeFailed, blobNull and invoked record what
\* happened; the code does not read them.
Run(pc, closure, i, j, processed) ==
  [pc |-> pc, folders |-> closure, i |-> i, j |-> j, processed |-> processed,
   file |-> NoFile, originalSize |-> 0, currentFile |-> NoFile,
   compressedFile |-> NoFile, quality |-> DZero, attempts |-> 0, result |-> NoResult,
   calls |-> <<>>, outputs |-> <<>>, raised |-> FALSE, decodeFailed |-> FALSE,
   blobNull |-> FALSE, invoked |-> <<>>]

Suspended == {"imgLoad", "toBlob", "encode", "pending", "done"}

\* no run is in the middle of a task
Quiescent == \A r \in 1..Len(runs) : runs[r].pc \in Suspended

\* a setState call is dropped once the tree is unmounted
SetState(old, new) == IF crashed THEN old ELSE new

Init ==
  /\ folders = <<>>
  /\ isProcessing = FALSE
  /\ processingStatus = <<>>
  /\ runs = <<>>
  /\ archive = NoArchive
  /\ crashed = FALSE
  /\ nEvents = 0

\* ------------------------------------------------------------------------
\* User events
\* ------------------------------------------------------------------------
\* The handler of a user event runs as a task of its own, on the tree as
\* rendered from the current state.
UserEvent ==
  /\ ~crashed /\ Quiescent
  /\ nEvents < MaxEvents
  /\ nEvents' = nEvents + 1

\* the file input is always rendered
handleFolderUpload(uploadedFiles) ==
  /\ UserEvent
  /\ Len(folders) + Len(NewFolders(uploadedFiles)) <= MaxFolders
  /\ folders' = folders \o NewFolders(uploadedFiles)
  /\ processingStatus' = <<>>
  /\ archive' = NoArchive
  /\ UNCHANGED <<isProcessing, runs, crashed>>

\* variant: the group after the clicked one goes, or the clicked one if last
removeFolderAfter(index) ==
  /\ UserEvent
  /\ index \in 1..Len(folders)
  /\ folders' = [k \in 1..(Len(folders) - 1) |->
                   IF k <= index THEN folders[k] ELSE folders[k + 1]]
  /\ archive' = NoArchive
  /\ UNCHANGED <<isProcessing, processingStatus, runs, crashed>>

\* the Remove button of every listed folder is always rendered
removeFolder(index) ==
  /\ UserEvent
  /\ index \in 1..Len(folders)
  /\ folders' = [k \in 1..(Len(folders) - 1) |->
                   IF k < index THEN folders[k] ELSE folders[k + 1]]
  /\ archive' = NoArchive
  /\ UNCHANGED <<isProcessing, processingStatus, runs, crashed>>

\* folders.some(f => f.processedFiles.length > 0)
SomeProcessed == \E k \in 1..Len(folders) : Len(folders[k].processedFiles) > 0

\* variant: the button does not look at isProcessing
ProcessButtonShownWhileProcessing == Len(folders) > 0 /\ ~SomeProcessed

\* the condition under which the Process Files button is rendered
ProcessButtonShown == Len(folders) > 0 /\ ~isProcessing /\ ~SomeProcessed

\* the click: processFiles up to the head of the first inner loop
processFiles ==
  /\ UserEvent
  /\ ProcessButtonShown
  /\ isProcessing' = TRUE
  /\ processingStatus' = <<FolderEntry(folders[1].name)>>
  /\ runs' = Append(runs, Run("file", folders, 1, 1, <<>>))
  /\ archive' = NoArchive
  /\ UNCHANGED <<folders, crashed>>

\* the Download button is rendered whenever some group has results
downloadProcessedFiles ==
  /\ UserEvent
  /\ SomeProcessed
  /\ archive' = BuildZip(folders)
  /\ UNCHANGED <<folders, isProcessing, processingStatus, runs, crashed>>

\* ------------------------------------------------------------------------
\* Steps of a processFiles call
\* ------------------------------------------------------------------------
SetRun(r, new) == runs' = [runs EXCEPT ![r] = new]

\* the folder the outer loop of run R is at
Folder(R) == R.folders[R.i]

\* `for (const file of folder.files)` has a next file: log it and call
\* compressImage, which runs up to its first await or to the size check
StartFile(r) ==
  LET R == runs[r]
      file == Folder(R).files[R.j]
  IN /\ R.pc = "file"
     /\ R.j <= Len(Folder(R).files)
     /\ processingStatus' =
          SetState(processingStatus, Append(processingStatus, ProcessingEntry(file.name)))
     /\ SetRun(r, [R EXCEPT !.pc = IF file.type = TypePng THEN "imgLoad" ELSE "check",
                            !.file = file,
                            !.originalSize = file.size,
                            !.currentFile = file,
                            !.compressedFile = NoFile,
                            !.quality = DZero,
                            !.attempts = 0,
                            !.result = NoResult,
                            !.calls = <<>>,
                            !.outputs = <<>>,
                            !.raised = FALSE,
                            !.decodeFailed = FALSE,
                            !.blobNull = FALSE,
                            !.invoked = Append(@, <<Folder(R).name, file>>)])
     /\ archive' = NoArchive
     /\ UNCHANGED <<folders, isProcessing, crashed, nEvents>>

\* img.onload: draw on a canvas and ask for a JPEG blob at quality 0.9
ImgLoad(r) ==
  /\ runs[r].pc = "imgLoad"
  /\ SetRun(r, [runs[r] EXCEPT !.pc = "toBlob"])
  /\ archive' = NoArchive
  /\ UNCHANGED <<folders, isProcessing, processingStatus, crashed, nEvents>>

\* the image cannot be decoded: the browser fires the error event, for which
\* convertPngToJpg registers no handler, so nothing settles its promise
ImgError(r) ==
  /\ runs[r].pc = "imgLoad"
  /\ SetRun(r, [runs[r] EXCEPT !.pc = "pending", !.decodeFailed = TRUE])
  /\ archive' = NoArchive
  /\ UNCHANGED <<folders, isProcessing, processingStatus, crashed, nEvents>>

\* the toBlob callback with a blob: resolve(newFile)
BlobReady(r, size) ==
  /\ runs[r].pc = "toBlob"
  /\ SetRun(r, [runs[r] EXCEPT !.pc = "check",
                               !.currentFile = ConvertedFile(runs[r].file, size)])
  /\ archive' = NoArchive
  /\ UNCHANGED <<folders, isProcessing, processingStatus, crashed, nEvents>>

\* the toBlob callback with null: resolve(file)
BlobNull(r) ==
  /\ runs[r].pc = "toBlob"
  /\ SetRun(r, [runs[r] EXCEPT !.pc = "check", !.currentFile = runs[r].file,
                               !.blobNull = TRUE])
  /\ archive' = NoArchive
  /\ UNCHANGED <<folders, isProcessing, processingStatus, crashed, nEvents>>

\* variant: every file is taken for an image
IsImageAlways(file) == TRUE

\* currentFile.type.startsWith('image/')
IsImage(file) == StartsWith(file.type, ImagePrefix)

\* variant: currentFile.size < 500 * 1024
WithinBudgetStrict(file) == file.size < Budget

\* currentFile.size <= 500 * 1024
WithinBudget(file) == file.size <= Budget

\* compressImage after the conversion: return as is, or enter the retry loop
Check(r) ==
  LET R == runs[r]
  IN /\ R.pc = "check"
     /\ IF IsImage(R.currentFile) /\ ~WithinBudget(R.currentFile)
        THEN SetRun(r, [R EXCEPT !.pc = "loop",
                                 !.quality = D09,
                                 !.compressedFile = R.currentFile,
                                 !.attempts = 0])
        ELSE SetRun(r, [R EXCEPT !.pc = "result",
                                 !.result = ProcessedFile(R.currentFile, R.originalSize,
                                                          FALSE, Folder(R).name)])
     /\ archive' = NoArchive
     /\ UNCHANGED <<folders, isProcessing, processingStatus, crashed, nEvents>>

\* variant: the loop goes on to the attempt ceiling whatever the size
LoopConditionIgnoringSize(compressedFile, attempts) == attempts < MaxAttempts

\* compressedFile.size > 500 * 1024 && attempts < maxAttempts
LoopCondition(compressedFile, attempts) ==
  compressedFile.size > Budget /\ attempts < MaxAttempts

\* the while test: call imageCompression(currentFile, options), or leave the
\* loop and return
LoopTest(r) ==
  LET R == runs[r]
  IN /\ R.pc = "loop"
     /\ IF LoopCondition(R.compressedFile, R.attempts)
        THEN SetRun(r, [R EXCEPT !.pc = "encode", !.calls = Append(@, R.quality)])
        ELSE SetRun(r, [R EXCEPT !.pc = "result",
                                 !.result = ProcessedFile(R.compressedFile, R.originalSize,
                                                          TRUE, Folder(R).name)])
     /\ archive' = NoArchive
     /\ UNCHANGED <<folders, isProcessing, processingStatus, crashed, nEvents>>

\* variant: quality -= 0.1
NextQualityByTenth(quality) == DblSub(quality, D01)

\* quality -= 0.2
NextQuality(quality) == DblSub(quality, D02)

\* imageCompression resolves: compressedFile = ...; quality -= 0.2; attempts++
EncodeResolve(r, size) ==
  LET R == runs[r]
      out == CompressedFile(R.currentFile, R.quality, size)
  IN /\ R.pc = "encode"
     /\ SetRun(r, [R EXCEPT !.pc = "loop",
                            !.compressedFile = out,
                            !.quality = NextQuality(R.quality),
                            !.attempts = R.attempts + 1,
                            !.outputs = Append(@, out)])
     /\ archive' = NoArchive
     /\ UNCHANGED <<folders, isProcessing, processingStatus, crashed, nEvents>>

\* variant: the catch block falls back to the input of the loop
AfterCatchReset(R) == R.currentFile

\* what the catch block leaves in compressedFile
AfterCatch(R) == R.compressedFile

\* imageCompression rejects: catch, break, return
EncodeReject(r) ==
  LET R == runs[r]
  IN /\ R.pc = "encode"
     /\ SetRun(r, [R EXCEPT !.pc = "result",
                            !.raised = TRUE,
                            !.compressedFile = AfterCatch(R),
                            !.result = ProcessedFile(AfterCatch(R), R.originalSize,
                                                     TRUE, Folder(R).name)])
     /\ archive' = NoArchive
     /\ UNCHANGED <<folders, isProcessing, processingStatus, crashed, nEvents>>

\* compressImage has returned: processed.push(result) and the Completed entry
FileCompleted(r) ==
  LET R == runs[r]
  IN /\ R.pc = "result"
     /\ processingStatus' =
          SetState(processingStatus,
                   Append(processingStatus, CompletedEntry(R.file.name, R.result)))
     /\ SetRun(r, [R EXCEPT !.pc = "file",
                            !.processed = Append(@, R.result),
                            !.j = R.j + 1])
     /\ archive' = NoArchive
     /\ UNCHANGED <<folders, isProcessing, crashed, nEvents>>

\* setFolders(prev => { newFolders[i] = {...newFolders[i], processedFiles} })
\* for an index inside prev
StoreProcessed(prev, i, processed) == [prev EXCEPT ![i].processedFiles = processed]

\* the inner loop is over: store the folder's results at index i of the
\* current folders, then go on with the next folder or end the run. An index
\* past the end of the current folders makes an element without name and
\* files, on which the next render throws (folder.files.length): React
\* unmounts the tree and the state stays as last committed.
FinishFolder(r) ==
  LET R == runs[r]
      more == R.i < Len(R.folders)
      throws == ~crashed /\ R.i > Len(folders)
  IN /\ R.pc = "file"
     /\ R.j > Len(Folder(R).files)
     /\ crashed' = (crashed \/ throws)
     /\ folders' = IF crashed \/ throws THEN folders
                   ELSE StoreProcessed(folders, R.i, R.processed)
     /\ processingStatus' =
          IF crashed \/ throws \/ ~more THEN processingStatus
          ELSE Append(processingStatus, FolderEntry(R.folders[R.i + 1].name))
     /\ isProcessing' = IF crashed \/ throws \/ more THEN isProcessing ELSE FALSE
     /\ SetRun(r, IF more
                  THEN [R EXCEPT !.i = R.i + 1, !.j = 1, !.processed = <<>>]
                  ELSE [R EXCEPT !.pc = "done"])
     /\ archive' = NoArchive
     /\ UNCHANGED <<nEvents>>

\* ------------------------------------------------------------------------
\* Specification
\* ------------------------------------------------------------------------
Next ==
  \/ \E uploadedFiles \in Selections : handleFolderUpload(uploadedFiles)
  \/ \E index \in 1..Len(folders) : removeFolder(index)
  \/ processFiles
  \/ downloadProcessedFiles
  \/ \E r \in 1..Len(runs) : StartFile(r)
  \/ \E r \in 1..Len(runs) : ImgLoad(r)
  \/ \E r \in 1..Len(runs) : ImgError(r)
  \/ \E r \in 1..Len(runs), size \in EncodedSizes : BlobReady(r, size)
  \/ \E r \in 1..Len(runs) : BlobNull(r)
  \/ \E r \in 1..Len(runs) : Check(r)
  \/ \E r \in 1..Len(runs) : LoopTest(r)
  \/ \E r \in 1..Len(runs), size \in EncodedSizes : EncodeResolve(r, size)
  \/ \E r \in 1..Len(runs) : EncodeReject(r)
  \/ \E r \in 1..Len(runs) : FileCompleted(r)
  \/ \E r \in 1..Len(runs) : FinishFolder(r)

\* a step of some run: the end of an external operation, or its microtasks
RunStep ==
  \E r \in 1..Len(runs) :
    \/ StartFile(r)
    \/ ImgLoad(r)
    \/ ImgError(r)
    \/ \E size \in EncodedSizes : BlobReady(r, size)
    \/ BlobNull(r)
    \/ Check(r)
    \/ LoopTest(r)
    \/ \E size \in EncodedSizes : EncodeResolve(r, size)
    \/ EncodeReject(r)
    \/ FileCompleted(r)
    \/ FinishFolder(r)

Spec == Init /\ [][Next]_vars

\* An external operation a run waits for ends, and the microtasks of a run
\* are run: a run that can take a step eventually takes one.
FairSpec == Spec /\ WF_vars(RunStep)

\* Grouping on its own: the first selection of a session, out of every list
\* of at most MaxUpload files.
GroupNext ==
  \E uploadedFiles \in GroupInputs : folders = <<>> /\ handleFolderUpload(uploadedFiles)

GroupSpec == Init /\ [][GroupNext]_vars

\* The normalizer on its own: one file is selected, then processed.
NormNext ==
  \/ \E file \in NormFiles : folders = <<>> /\ handleFolderUpload(<<file>>)
  \/ processFiles
  \/ \E r \in 1..Len(runs) : StartFile(r)
  \/ \E r \in 1..Len(runs) : ImgLoad(r)
  \/ \E r \in 1..Len(runs) : ImgError(r)
  \/ \E r \in 1..Len(runs), size \in EncodedSizes : BlobReady(r, size)
  \/ \E r \in 1..Len(runs) : BlobNull(r)
  \/ \E r \in 1..Len(runs) : Check(r)
  \/ \E r \in 1..Len(runs) : LoopTest(r)
  \/ \E r \in 1..Len(runs), size \in EncodedSizes : EncodeResolve(r, size)
  \/ \E r \in 1..Len(runs) : EncodeReject(r)
  \/ \E r \in 1..Len(runs) : FileCompleted(r)
  \/ \E r \in 1..Len(runs) : FinishFolder(r)

NormSpec == Init /\ [][NormNext]_vars

\* ------------------------------------------------------------------------
\* Properties
\* ------------------------------------------------------------------------
Runs == 1..Len(runs)

\* the runs that have not returned
Active == {r \in Runs : runs[r].pc # "done"}

\* run r is inside convertPngToJpg
Converting(r) == runs[r].pc \in {"imgLoad", "toBlob", "pending"}

\* C1: a PNG conversion whose decoding failed or whose encoding gave no blob
\* has completed and handed back the original file.
C1_ConversionBestEffort ==
  \A r \in Runs :
    (runs[r].decodeFailed \/ runs[r].blobNull) =>
      (~Converting(r) /\ runs[r].currentFile = runs[r].file)

\* C2: every started run ends: isProcessing, once true, becomes false again.
C2_RunTerminates == isProcessing ~> (~isProcessing /\ Active = {})

\* the doubles 0.9, 0.7, 0.49999999999999994, 0.29999999999999993 and
\* 0.09999999999999992
QualityLadder ==
  <<D09, D07, Dbl(FALSE, 134217727, 268435452), Dbl(FALSE, 80530636, 214748360),
    Dbl(FALSE, 26843545, 161061268)>>

\* the doubles nearest to 0.9, 0.7, 0.5, 0.3 and 0.1
TenthsLadder == <<D09, D07, D05, D03, D01>>

\* |a - b| for non-negative doubles, as a count of 2^-56
Gap(a, b) ==
  LET m == IF MagLess(a, b) THEN MagSub(b, a) ELSE MagSub(a, b)
  IN IF m.hi > 0 THEN Limb ELSE m.lo

\* C3 as stated: at most 5 re-encode calls per compressImage call, the k-th at
\* quality 0.9 - 0.2 * (k - 1), none below 0.1.
C3_QualityIsTenths ==
  \A r \in Runs :
    /\ Len(runs[r].calls) <= 5
    /\ \A k \in 1..Len(runs[r].calls) :
         /\ k <= 5 => runs[r].calls[k] = TenthsLadder[k]
         /\ ~DblLess(runs[r].calls[k], D01)

\* C3 as amended: at most 5 re-encode calls per compressImage call, the k-th at
\* the double reached from 0.9 by k - 1 subtractions of 0.2, which is within
\* 2^-52 of 0.9 - 0.2 * (k - 1) and positive; the fifth is below 0.1.
C3_QualityLadder ==
  \A r \in Runs :
    /\ Len(runs[r].calls) <= 5
    /\ \A k \in 1..Len(runs[r].calls) :
         /\ runs[r].calls[k] = QualityLadder[k]
         /\ Gap(runs[r].calls[k], TenthsLadder[k]) <= 16
         /\ DblLess(DZero, runs[r].calls[k])
         /\ k = 5 => DblLess(runs[r].calls[k], D01)

C3_Witness == \E r \in Runs : Len(runs[r].calls) = 5 /\ runs[r].pc = "encode"

\* run r has returned from a compressImage call that entered the retry loop
LoopReturned(r) ==
  /\ runs[r].pc = "result"
  /\ IsImage(runs[r].currentFile)
  /\ runs[r].currentFile.size > Budget

\* C4: when no attempt raised, the retry loop made between 1 and 5 attempts,
\* every attempt before the last gave more than 512000 bytes, the last gave at
\* most 512000 bytes or was the 5th, and the result carries the output of the
\* last attempt with isCompressed = true.
C4_LoopStopsAtFirstFit ==
  \A r \in Runs :
    (LoopReturned(r) /\ ~runs[r].raised) =>
      LET outs == runs[r].outputs
          n == Len(outs)
      IN /\ n \in 1..5
         /\ Len(runs[r].calls) = n
         /\ \A k \in 1..(n - 1) : outs[k].size > Budget
         /\ outs[n].size <= Budget \/ n = 5
         /\ runs[r].result.file = outs[n]
         /\ runs[r].result.compressedSize = outs[n].size
         /\ runs[r].result.isCompressed

\* five attempts, all oversized, and an oversized result
C4_Witness ==
  \E r \in Runs :
    /\ LoopReturned(r) /\ ~runs[r].raised
    /\ Len(runs[r].outputs) = 5
    /\ runs[r].result.compressedSize > Budget

\* C5: when attempt k raised, it was the last attempt, and the result carries
\* the output of attempt k - 1, or the file the loop started from when k = 1,
\* with isCompressed = true.
C5_RaiseKeepsBestSoFar ==
  \A r \in Runs :
    (runs[r].pc = "result" /\ runs[r].raised) =>
      LET k == Len(runs[r].calls)
      IN /\ k \in 1..5
         /\ Len(runs[r].outputs) = k - 1
         /\ runs[r].result.file =
              IF k = 1 THEN runs[r].currentFile ELSE runs[r].outputs[k - 1]
         /\ runs[r].result.isCompressed
         /\ runs[r].result.originalSize = runs[r].file.size

\* the third attempt raised after two oversized outputs
C5_Witness ==
  \E r \in Runs :
    /\ runs[r].pc = "result" /\ runs[r].raised
    /\ Len(runs[r].calls) = 3
    /\ runs[r].result.compressedSize > Budget

\* C6: the names of the groups in folders are pairwise distinct.
C6_GroupNamesDistinct ==
  \A a, b \in 1..Len(folders) : a # b => folders[a].name # folders[b].name

\* old is a prefix of new
IsPrefix(old, new) == Len(old) <= Len(new) /\ SubSeq(new, 1, Len(old)) = old

\* C7: while a run is in progress every change of the log appends one entry
\* to it.
C7_LogAppendOnlyDuringRun ==
  [][(isProcessing /\ isProcessing' /\ processingStatus' # processingStatus) =>
       (Len(processingStatus') = Len(processingStatus) + 1
        /\ IsPrefix(processingStatus, processingStatus'))]_vars

\* the runs that are inside a compressImage call
InFlight == {r \in Runs : runs[r].pc \in {"imgLoad", "toBlob", "pending", "check",
                                          "loop", "encode", "result"}}

\* C8: at most one run is active and at most one compressImage call is in
\* flight, and in the log a file's Processing entry is either the last entry
\* or directly followed by the Completed entry of the same file.
C8_OneRunOneFileAtATime ==
  /\ Cardinality(Active) <= 1
  /\ Cardinality(InFlight) <= 1
  /\ isProcessing \/ Active = {}
  /\ \A k \in 1..Len(processingStatus) :
       processingStatus[k].kind = "processing" =>
         \/ k = Len(processingStatus)
         \/ /\ processingStatus[k + 1].kind = "completed"
            /\ processingStatus[k + 1].name = processingStatus[k].name

\* a run waits for the encoder in its second folder after three user events,
\* with a finished file in the log
C8_Witness ==
  /\ nEvents >= 3
  /\ \E r \in Runs : runs[r].pc = "encode" /\ runs[r].i = 2
  /\ \E k \in 1..(Len(processingStatus) - 1) :
       processingStatus[k].kind = "processing" /\ processingStatus[k + 1].kind = "completed"

\* the files of the folders fs from folder i on, in processing order, each
\* with the name of its folder
RECURSIVE FilesFrom(_, _)
FilesFrom(fs, i) ==
  IF i > Len(fs) THEN <<>>
  ELSE [k \in 1..Len(fs[i].files) |-> <<fs[i].name, fs[i].files[k]>>] \o FilesFrom(fs, i + 1)

\* the results of group F are those of its files, in order
ResultsOfOwnFiles(F) ==
  /\ Len(F.processedFiles) = Len(F.files)
  /\ \A k \in 1..Len(F.files) :
       /\ F.processedFiles[k].file.data.origin = F.files[k].data.origin
       /\ F.processedFiles[k].originalSize = F.files[k].size
       /\ F.processedFiles[k].folderName = F.name

\* C9: a run calls compressImage on the files of its selection in group order
\* then file order, and the results stored for a group are those of the
\* group's own files, in order and of the same number.
C9_OrderAndCorrespondence ==
  /\ \A r \in Runs : IsPrefix(runs[r].invoked, FilesFrom(runs[r].folders, 1))
  /\ \A g \in 1..Len(folders) :
       Len(folders[g].processedFiles) > 0 => ResultsOfOwnFiles(folders[g])

\* the file entries of the archive under the directory name
EntriesUnder(name) == {p \in DOMAIN archive.files : p[1] = name}

\* C10: a built archive has one directory per group and, under each, as many
\* file entries as the group has processed files.
C10_ArchiveEntryPerFile ==
  archive # NoArchive =>
    /\ Cardinality(archive.dirs) = Len(folders)
    /\ \A g \in 1..Len(folders) :
         Cardinality(EntriesUnder(folders[g].name)) = Len(folders[g].processedFiles)

\* the group name of a file: the first segment of its relative path
Seg(file) == FirstSegment(file.path)

\* the positions in files of the files whose group is name
Positions(files, name) == {k \in 1..Len(files) : Seg(files[k]) = name}

\* the m-th smallest element of the set of numbers S
Nth(S, m) == CHOOSE k \in S : Cardinality({x \in S : x < k}) = m - 1

\* groups is the partition of files by group name: one group per name, in
\* the order of the first file of each, holding the files of that name in
\* input order, with no results
Partitioned(files, groups) ==
  /\ \A k \in 1..Len(files) :
       Cardinality({g \in 1..Len(groups) : groups[g].name = Seg(files[k])}) = 1
  /\ \A g \in 1..Len(groups) :
       LET P == Positions(files, groups[g].name)
       IN /\ P # {}
          /\ Len(groups[g].files) = Cardinality(P)
          /\ \A m \in 1..Len(groups[g].files) : groups[g].files[m] = files[Nth(P, m)]
          /\ groups[g].processedFiles = <<>>
  /\ \A g, h \in 1..Len(groups) :
       g < h => Nth(Positions(files, groups[g].name), 1) < Nth(Positions(files, groups[h].name), 1)

\* C11: the groups one selection event produces are the partition of its
\* files by first path segment, in first-seen order, each in input order;
\* files without a path share the group of the empty name; no file, no group.
C11_GroupingPartitions ==
  [][\A uploadedFiles \in GroupInputs :
       (folders = <<>> /\ handleFolderUpload(uploadedFiles)) =>
         Partitioned(uploadedFiles, folders')]_vars

\* the selection [A/a.png, B/n.txt, A/a.jpg] has given [A: [a.png, a.jpg], B: [n.txt]]
C11_Witness ==
  /\ Len(folders) = 2
  /\ folders[1].name = <<"A">> /\ folders[1].files = <<PngBig, JpgAt>>
  /\ folders[2].name = <<"B">> /\ folders[2].files = <<TxtBig>>

\* the declared type of file starts with image/
DeclaredImage(file) == StartsWith(file.type, ImagePrefix)

\* C12: an image of at most 512000 bytes after the optional conversion is
\* returned as it is, with no re-encode call and isCompressed = false; an
\* image of more than 512000 bytes is returned with isCompressed = true.
C12_BudgetDecides ==
  \A r \in Runs :
    /\ runs[r].pc \in {"loop", "encode"} =>
         (DeclaredImage(runs[r].currentFile) /\ runs[r].currentFile.size > Budget)
    /\ (runs[r].pc = "result" /\ DeclaredImage(runs[r].currentFile)) =>
         IF runs[r].currentFile.size <= Budget
         THEN /\ runs[r].calls = <<>>
              /\ runs[r].result.file = runs[r].currentFile
              /\ ~runs[r].result.isCompressed
         ELSE runs[r].result.isCompressed

\* a PNG converted to exactly 512000 bytes has been returned uncompressed
C12_Witness ==
  \E r \in Runs :
    /\ runs[r].pc = "result"
    /\ runs[r].currentFile.data.how = "canvas"
    /\ runs[r].currentFile.size = Budget
    /\ ~runs[r].result.isCompressed

\* C13: a file whose declared type does not start with image/ is never
\* converted nor re-encoded and is returned itself, with isCompressed = false
\* and compressedSize = originalSize, whatever its size.
C13_NonImageUntouched ==
  \A r \in Runs :
    (runs[r].file # NoFile /\ ~DeclaredImage(runs[r].file)) =>
      /\ runs[r].pc \notin {"imgLoad", "toBlob", "pending", "loop", "encode"}
      /\ runs[r].calls = <<>>
      /\ runs[r].currentFile = runs[r].file
      /\ runs[r].pc = "result" =>
           /\ runs[r].result.file = runs[r].file
           /\ ~runs[r].result.isCompressed
           /\ runs[r].result.compressedSize = runs[r].file.size
           /\ runs[r].result.originalSize = runs[r].file.size

\* a text file above the budget has been returned
C13_Witness ==
  \E r \in Runs :
    /\ runs[r].pc = "result"
    /\ runs[r].file = TxtBig
    /\ runs[r].result.compressedSize > Budget

\* String.prototype.endsWith
EndsWith(s, p) == Len(s) >= Len(p) /\ SubSeq(s, Len(s) - Len(p) + 1, Len(s)) = p

\* name with its extension .png replaced by .jpg
WithJpgExtension(name) ==
  IF EndsWith(name, DotPng) THEN SubSeq(name, 1, Len(name) - Len(DotPng)) \o DotJpg ELSE name

\* C15: the file a successful PNG conversion hands on has type image/jpeg and
\* the original name with its .png extension replaced by .jpg, so that its
\* name does not end in .png.
C15_ConvertedNameAndType ==
  \A r \in Runs :
    runs[r].currentFile.data.how = "canvas" =>
      /\ runs[r].currentFile.type = TypeJpeg
      /\ runs[r].currentFile.name = WithJpgExtension(runs[r].file.name)
      /\ ~EndsWith(runs[r].currentFile.name, DotPng)

\* C18: on return originalSize is the size of the input file as selected,
\* compressedSize is the size of the returned payload, and the input file is
\* still the selected one.
C18_SizesOfInputAndPayload ==
  \A r \in Runs :
    runs[r].pc = "result" =>
      /\ runs[r].result.originalSize = runs[r].file.size
      /\ runs[r].result.compressedSize = runs[r].result.file.size
      /\ runs[r].file = Folder(runs[r]).files[runs[r].j]
      /\ runs[r].file \in NormFiles

\* a converted and re-encoded PNG has been returned with a size other than
\* its original one
C18_Witness ==
  \E r \in Runs :
    /\ runs[r].pc = "result"
    /\ runs[r].result.file.data.how = "compressed"
    /\ runs[r].currentFile.data.how = "canvas"
    /\ runs[r].result.compressedSize # runs[r].result.originalSize

\* fs without its element at position index
Without(fs, index) == SubSeq(fs, 1, index - 1) \o SubSeq(fs, index + 1, Len(fs))

\* C14: removeFolder with no run active takes out the group at the clicked
\* position and leaves the others as they were, in order; a run works on the
\* groups listed at its click and calls compressImage on their files only; an
\* archive has directories and entries of the listed groups only.
C14_RemoveExactlyThatGroup ==
  [][/\ \A index \in 1..Len(folders) :
          (Active = {} /\ removeFolder(index)) =>
            /\ folders' = Without(folders, index)
            /\ runs' = runs /\ isProcessing' = isProcessing
     /\ processFiles =>
          /\ Len(runs') = Len(runs) + 1
          /\ runs'[Len(runs')].folders = folders
          /\ runs'[Len(runs')].invoked = <<>>
     /\ \A r \in 1..Len(runs') :
          /\ r <= Len(runs) => runs'[r].folders = runs[r].folders
          /\ IsPrefix(runs'[r].invoked, FilesFrom(runs'[r].folders, 1))
     /\ downloadProcessedFiles =>
          /\ archive'.dirs = {folders[k].name : k \in 1..Len(folders)}
          /\ \A p \in DOMAIN archive'.files :
               \E k \in 1..Len(folders) :
                 /\ p[1] = folders[k].name
                 /\ \E m \in 1..Len(folders[k].processedFiles) :
                      archive'.files[p] = folders[k].processedFiles[m].file]_vars

\* groups A and B were selected, A was removed before the run was started,
\* and the archive of the run's results has been built
C14_Witness ==
  /\ Len(folders) = 1 /\ folders[1].files = <<TxtBig>>
  /\ Len(runs) = 1 /\ runs[1].pc = "done"
  /\ Len(runs[1].folders) = 1
  /\ runs[1].invoked = <<<<folders[1].name, TxtBig>>>>
  /\ archive # NoArchive /\ archive.dirs = {folders[1].name}

\* result was derived from file
DerivedFrom(result, file) == result.file.data.origin = file.data.origin

\* C16: whatever removals and selections happen during a run, every result
\* stored in a group carries the group's name and was derived from one of the
\* group's files.
C16_ResultsBelongToGroup ==
  \A g \in 1..Len(folders) :
    \A m \in 1..Len(folders[g].processedFiles) :
      /\ folders[g].processedFiles[m].folderName = folders[g].name
      /\ \E k \in 1..Len(folders[g].files) :
           DerivedFrom(folders[g].processedFiles[m], folders[g].files[k])

\* C17: when no run is active and some result exists, every selected file has
\* exactly one result derived from it and there is no other result.
C17_ResultsMatchSelection ==
  (Active = {} /\ ~isProcessing /\ SomeProcessed) =>
    \A g \in 1..Len(folders) :
      /\ Len(folders[g].processedFiles) = Len(folders[g].files)
      /\ \A k \in 1..Len(folders[g].files) :
           Cardinality({m \in 1..Len(folders[g].processedFiles) :
                          DerivedFrom(folders[g].processedFiles[m], folders[g].files[k])}) = 1

====
